---- MODULE Spec2Model ----
(***************************************************************************)
(* Model of tutorial_simsiam_esa.ipynb: the SimSiam training loop, the     *)
(* embedding loop, the rescaling of the 2D projection, the thumbnail       *)
(* scatter plot and the nearest-neighbour plots.                           *)
(*                                                                         *)
(* Numbers.  Python floats are modelled as exact rationals [n, d] in       *)
(* lowest terms (d > 0); rounding error is not modelled.  The one          *)
(* irrational the notebook computes, math.sqrt(out_dim), is kept exact: a  *)
(* real of the form rat + irr * sqrt(out_dim) is the record [rat, irr].    *)
(* The value numpy gives for 0/0 is the model value NaN.                   *)
(* Library results (network outputs, the random projection) are inputs.    *)
(***************************************************************************)
EXTENDS Integers, Sequences, FiniteSets, TLC

VARIABLES
    epochs, batch_size, num_images,      \* configuration and dataset size
    pc,                                  \* position in the notebook
    e, b,                                \* loop variables of the training loop
    outcome,                             \* what model(x0), model(x1) returned for the batch
    loss,                                \* loss of the current batch
    grads,                               \* .grad of the parameters: batches accumulated
    weights,                             \* parameters: the updates applied so far
    avg_loss, avg_output_std,            \* moving averages
    collapse_level,
    reports,                             \* what the epoch report printed
    trace,                               \* operations run so far, in order
    hist,                                \* the (loss, output_std) of every batch so far
    training, grad_enabled,              \* model.training, torch.is_grad_enabled()
    i, x, y, fnames, embeddings, filenames,   \* embedding loop
    raw_2d, embeddings_2d,               \* projection and its rescaling
    iterator, pos, shown_images, shown_images_idx, thumbnails,   \* scatter plot
    nn_embeddings, example_idx, nearest_neighbors, subplots,  \* nearest neighbours
    img, w, framed_img                   \* framed image

vars == <<epochs, batch_size, num_images, pc, e, b, outcome, loss, grads, weights,
          avg_loss, avg_output_std, collapse_level, reports, trace, hist,
          training, grad_enabled, i, x, y, fnames, embeddings, filenames,
          raw_2d, embeddings_2d, iterator, pos, shown_images, shown_images_idx,
          thumbnails, nn_embeddings, example_idx, nearest_neighbors, subplots,
          img, w, framed_img>>

trainVars == <<e, b, outcome, loss, grads, weights, avg_loss, avg_output_std,
               collapse_level, reports, trace, hist>>
embedVars == <<i, x, y, fnames, embeddings, filenames>>
plotVars  == <<raw_2d, embeddings_2d, iterator, pos, shown_images, shown_images_idx,
               thumbnails>>
nnVars    == <<nn_embeddings, example_idx, nearest_neighbors, subplots>>
frameVars == <<img, w, framed_img>>
config    == <<epochs, batch_size, num_images>>

-----------------------------------------------------------------------------
(* Bounds of the model *)
MaxEpochs == 2
MaxImages == 4
MaxBatchSize == 3
MaxStdNum == 64        \* avg_output_std up to MaxStdNum / StdDen
StdDen == 1024
MaxPoints == 3         \* projected points of the scatter plot
MaxNeighbors == 3      \* images of the nearest-neighbour plot
MaxSide == 2           \* height and width of a framed image
MaxFrame == 2          \* frame width

(* Program constants *)
out_dim == 512
n_subplots == 9

-----------------------------------------------------------------------------
(* Exact arithmetic standing for Python's float operations.                 *)
(* Eval1..Eval4 apply an operator to the values of its arguments, each     *)
(* argument being evaluated once.                                          *)

Eval1(F(_), u) == CHOOSE r \in { F(a1) : a1 \in {u} } : TRUE
Eval2(F(_, _), u, v) == CHOOSE r \in { F(a1, a2) : a1 \in {u}, a2 \in {v} } : TRUE
Eval4(F(_, _, _, _), t, u, v, z) ==
    CHOOSE r \in { F(a1, a2, a3, a4) : a1 \in {t}, a2 \in {u}, a3 \in {v}, a4 \in {z} } : TRUE

Abs(u) == IF u < 0 THEN -u ELSE u

Min(u, v) == IF u < v THEN u ELSE v

RECURSIVE Gcd(_, _)
GcdStep(u, v) == IF v = 0 THEN u ELSE Gcd(v, u % v)
Gcd(u, v) == Eval2(GcdStep, u, v)

Reduce(n, d) ==
    LET s == IF d < 0 THEN -1 ELSE 1
    IN  Eval1(LAMBDA g : [n |-> s * (n \div g), d |-> s * (d \div g)], Gcd(Abs(n), Abs(d)))

\* the rational n / d in lowest terms, d > 0
Rat(n, d) == Eval2(Reduce, n, d)

Zero == [n |-> 0, d |-> 1]
One == [n |-> 1, d |-> 1]

RNeg(u) == [n |-> -u.n, d |-> u.d]

Add(u, v) ==
    Eval1(LAMBDA l : Rat(u.n * (l \div u.d) + v.n * (l \div v.d), l),
          (u.d \div Gcd(u.d, v.d)) * v.d)

RAdd(u, v) == Eval2(Add, u, v)

RSub(u, v) == RAdd(u, RNeg(v))

Mul(u, v) ==
    Eval2(LAMBDA g1, g2 : Rat((u.n \div g1) * (v.n \div g2), (u.d \div g2) * (v.d \div g1)),
          Gcd(Abs(u.n), v.d), Gcd(Abs(v.n), u.d))

RMul(u, v) == Eval2(Mul, u, v)

RLess(u, v) == RSub(u, v).n < 0
RLeq(u, v) == RSub(u, v).n <= 0

\* a/b < c/d for naturals a, c and positive b, d, by continued fractions
\* (no product is formed, so nothing overflows)
RECURSIVE LessFrac(_, _, _, _)
LessFracStep(a0, b0, c0, d0) ==
    IF a0 \div b0 # c0 \div d0 THEN a0 \div b0 < c0 \div d0
    ELSE IF c0 % d0 = 0 THEN FALSE
    ELSE IF a0 % b0 = 0 THEN TRUE
    ELSE LessFrac(d0, c0 % d0, b0, a0 % b0)
LessFrac(a0, b0, c0, d0) == Eval4(LessFracStep, a0, b0, c0, d0)

\* k * u^2 < v^2 for positive rationals u, v and a positive integer k
SqLess(k, u, v) ==
    Eval1(LAMBDA t : LessFrac(k * t.n, t.d, t.d, t.n), RMul(u, [n |-> v.d, d |-> v.n]))

\* k * u^2 > v^2 for positive rationals u, v and a positive integer k
SqGreater(k, u, v) ==
    Eval1(LAMBDA t : LessFrac(t.d, t.n, k * t.n, t.d), RMul(u, [n |-> v.d, d |-> v.n]))

\* Reals of the form rat + irr * sqrt(out_dim)
Real(r) == [rat |-> r, irr |-> Zero]

sqrt_out_dim == [rat |-> Zero, irr |-> One]      \* math.sqrt(out_dim)

SScale(u, q) == [rat |-> RMul(u.rat, q), irr |-> RMul(u.irr, q)]

SSub(u, v) == [rat |-> RSub(u.rat, v.rat), irr |-> RSub(u.irr, v.irr)]

Positive(u) ==
    IF u.rat.n >= 0 /\ u.irr.n >= 0 THEN u.rat.n > 0 \/ u.irr.n > 0
    ELSE IF u.rat.n <= 0 /\ u.irr.n <= 0 THEN FALSE
    ELSE IF u.rat.n > 0 THEN SqLess(out_dim, RNeg(u.irr), u.rat)  \* rat > |irr| sqrt(out_dim)
    ELSE SqGreater(out_dim, u.irr, RNeg(u.rat))                   \* irr sqrt(out_dim) > |rat|

\* u > 0
SPos(u) == Eval1(Positive, u)

SLess(u, v) == SPos(SSub(v, u))
SLeq(u, v) == ~SPos(SSub(u, v))
SEq(u, v) == SLeq(u, v) /\ SLeq(v, u)

\* Python's max(a, b): b when b > a, else a
PyMax(u, v) == Eval2(LAMBDA a1, a2 : IF SLess(a1, a2) THEN a2 ELSE a1, u, v)

-----------------------------------------------------------------------------
(* Configuration cell and data loaders *)

w_avg == [n |-> 9, d |-> 10]                    \* w = 0.9

\* len(dataloader_train_simsiam): drop_last=True
NumTrainBatches == num_images \div batch_size

\* dataset_test[k]: the image and its filename
Image(k) == <<"image", k>>
Fname(k) == <<"fname", k>>

\* batch j (from 1) of dataloader_test: shuffle=False, drop_last=False
TestBatch(j) ==
    LET first == (j - 1) * batch_size + 1
        last == Min(j * batch_size, num_images)
    IN  [k \in 1..(last - first + 1) |-> first + k - 1]

\* drop_last=True instead: only full batches
HasTestBatch_drop_last(j) == j * batch_size <= num_images

\* whether dataloader_test has a batch j
HasTestBatch(j) == (j - 1) * batch_size < num_images

\* model.backbone(x).flatten(start_dim=1), one row per image of the batch
backbone(xs) == [k \in 1..Len(xs) |-> <<"backbone", Image(xs[k])>>]

\* What one forward pass of a batch can give: criterion(z0, p1), criterion(z1, p0)
\* (negative cosine similarities) and the mean standard deviation of the
\* normalised p0 (0 when the outputs have collapsed).
Outcomes ==
    { [c01 |-> [n |-> -1, d |-> 1], c10 |-> [n |-> -1, d |-> 1], std |-> Zero],
      [c01 |-> [n |-> -1, d |-> 2], c10 |-> Zero, std |-> [n |-> 1, d |-> 32]],
      [c01 |-> Zero, c10 |-> [n |-> 1, d |-> 2], std |-> [n |-> 1, d |-> 16]] }

NoOutcome == [c01 |-> Zero, c10 |-> Zero, std |-> Zero]

-----------------------------------------------------------------------------
(* Training cell *)

Op(name) == [op |-> name, batch |-> <<e, b>>]

\* the reset forgotten
zero_grad_forgotten(g) == g

\* optimizer.zero_grad()
zero_grad(g) == <<>>

\* loss.backward(): gradients add to what .grad holds
backward(g, batch) == Append(g, batch)

\* optimizer.step(): one update, from what .grad holds
step(ws, g) == Append(ws, g)

\* the weights the wrong way round
moving_average_swapped(avg, val) == RAdd(RMul(RSub(One, w_avg), avg), RMul(w_avg, val))

\* w * avg + (1 - w) * x
moving_average(avg, val) == RAdd(RMul(w_avg, avg), RMul(RSub(One, w_avg), val))

\* without the clamp at 0
CollapseLevel_unclamped(std) == SSub(Real(One), SScale(sqrt_out_dim, std))

\* max(0., 1 - math.sqrt(out_dim) * avg_output_std)
CollapseLevel(std) == PyMax(Real(Zero), SSub(Real(One), SScale(sqrt_out_dim, std)))

\* one value too many
in_range_inclusive(k, n) == k <= n

\* range(n) yields k
in_range(k, n) == k < n

\* for e in range(epochs):
ForEpoch ==
    /\ pc = "for_epoch"
    /\ IF in_range(e + 1, epochs)
       THEN /\ e' = e + 1
            /\ b' = 0
            /\ pc' = "for_batch"
       ELSE /\ pc' = "embed"
            /\ UNCHANGED <<e, b>>
    /\ UNCHANGED <<outcome, loss, grads, weights, avg_loss, avg_output_std,
                   collapse_level, reports, trace, hist>>
    /\ UNCHANGED <<config, training, grad_enabled, embedVars, plotVars, nnVars, frameVars>>

\* for (x0, x1), _, _ in dataloader_train_simsiam:
ForBatch ==
    /\ pc = "for_batch"
    /\ IF b < NumTrainBatches
       THEN /\ b' = b + 1
            /\ pc' = "forward"
       ELSE /\ pc' = "report"
            /\ UNCHANGED b
    /\ UNCHANGED <<e, outcome, loss, grads, weights, avg_loss, avg_output_std,
                   collapse_level, reports, trace, hist>>
    /\ UNCHANGED <<config, training, grad_enabled, embedVars, plotVars, nnVars, frameVars>>

\* z0, p0 = model(x0); z1, p1 = model(x1)
Forward ==
    /\ pc = "forward"
    /\ \E o \in Outcomes : outcome' = o
    /\ trace' = trace \o <<Op("forward_x0"), Op("forward_x1")>>
    /\ pc' = "loss"
    /\ UNCHANGED <<e, b, loss, grads, weights, avg_loss, avg_output_std,
                   collapse_level, reports, hist>>
    /\ UNCHANGED <<config, training, grad_enabled, embedVars, plotVars, nnVars, frameVars>>

\* loss = 0.5 * (criterion(z0, p1) + criterion(z1, p0))
Loss ==
    /\ pc = "loss"
    /\ loss' = RMul([n |-> 1, d |-> 2], RAdd(outcome.c01, outcome.c10))
    /\ trace' = Append(trace, Op("loss"))
    /\ pc' = "backward"
    /\ UNCHANGED <<e, b, outcome, grads, weights, avg_loss, avg_output_std,
                   collapse_level, reports, hist>>
    /\ UNCHANGED <<config, training, grad_enabled, embedVars, plotVars, nnVars, frameVars>>

\* loss.backward()
Backward ==
    /\ pc = "backward"
    /\ grads' = backward(grads, <<e, b>>)
    /\ trace' = Append(trace, Op("backward"))
    /\ pc' = "step"
    /\ UNCHANGED <<e, b, outcome, loss, weights, avg_loss, avg_output_std,
                   collapse_level, reports, hist>>
    /\ UNCHANGED <<config, training, grad_enabled, embedVars, plotVars, nnVars, frameVars>>

\* optimizer.step()
Step ==
    /\ pc = "step"
    /\ weights' = step(weights, grads)
    /\ trace' = Append(trace, Op("step"))
    /\ pc' = "zero_grad"
    /\ UNCHANGED <<e, b, outcome, loss, grads, avg_loss, avg_output_std,
                   collapse_level, reports, hist>>
    /\ UNCHANGED <<config, training, grad_enabled, embedVars, plotVars, nnVars, frameVars>>

\* optimizer.zero_grad()
ZeroGrad ==
    /\ pc = "zero_grad"
    /\ grads' = zero_grad(grads)
    /\ trace' = Append(trace, Op("zero_grad"))
    /\ pc' = "stats"
    /\ UNCHANGED <<e, b, outcome, loss, weights, avg_loss, avg_output_std,
                   collapse_level, reports, hist>>
    /\ UNCHANGED <<config, training, grad_enabled, embedVars, plotVars, nnVars, frameVars>>

\* output_std = torch.std(normalize(p0.detach()), 0).mean(); the moving averages
Stats ==
    /\ pc = "stats"
    /\ avg_loss' = moving_average(avg_loss, loss)
    /\ avg_output_std' = moving_average(avg_output_std, outcome.std)
    /\ hist' = Append(hist, [loss |-> loss, std |-> outcome.std])
    /\ trace' = Append(trace, Op("stats"))
    /\ pc' = "for_batch"
    /\ UNCHANGED <<e, b, outcome, loss, grads, weights, collapse_level, reports>>
    /\ UNCHANGED <<config, training, grad_enabled, embedVars, plotVars, nnVars, frameVars>>

\* collapse_level = ...; print(f'[Epoch {e:3d}] Loss = ... | Collapse Level: ...')
Report ==
    /\ pc = "report"
    /\ collapse_level' = CollapseLevel(avg_output_std)
    /\ reports' = Append(reports, [e |-> e, avg_loss |-> avg_loss,
                                   avg_output_std |-> avg_output_std,
                                   collapse_level |-> collapse_level'])
    /\ trace' = Append(trace, [op |-> "report", batch |-> <<e, 0>>])
    /\ pc' = "for_epoch"
    /\ UNCHANGED <<e, b, outcome, loss, grads, weights, avg_loss, avg_output_std, hist>>
    /\ UNCHANGED <<config, training, grad_enabled, embedVars, plotVars, nnVars, frameVars>>

Train == ForEpoch \/ ForBatch \/ Forward \/ Loss \/ Backward \/ Step \/ ZeroGrad
         \/ Stats \/ Report

-----------------------------------------------------------------------------
(* Embedding cell *)

RECURSIVE cat(_)
\* torch.cat(embeddings, dim=0): the rows of the batches, in order
cat(batches) == IF batches = <<>> THEN <<>> ELSE Head(batches) \o cat(Tail(batches))

\* list(fnames) of a batch of dataloader_test
fnames_of(xs) == [k \in 1..Len(xs) |-> Fname(xs[k])]

\* the new names put in front
add_filenames_front(fs, names) == names \o fs

\* filenames = filenames + list(fnames)
add_filenames(fs, names) == fs \o names

\* embeddings = []; filenames = []; model.eval(); with torch.no_grad():
EmbedInit ==
    /\ pc = "embed"
    /\ embeddings' = <<>>
    /\ filenames' = <<>>
    /\ i' = -1
    /\ UNCHANGED <<x, y, fnames>>
    /\ training' = FALSE
    /\ grad_enabled' = FALSE
    /\ pc' = "embed_for"
    /\ UNCHANGED <<config, trainVars, plotVars, nnVars, frameVars>>

\* for i, (x, _, fnames) in enumerate(dataloader_test):  (the next batch)
EmbedFor ==
    /\ pc = "embed_for"
    /\ HasTestBatch(i + 2)
    /\ i' = i + 1
    /\ x' = TestBatch(i + 2)
    /\ fnames' = fnames_of(TestBatch(i + 2))
    /\ pc' = "embed_backbone"
    /\ UNCHANGED <<y, embeddings, filenames, training, grad_enabled>>
    /\ UNCHANGED <<config, trainVars, plotVars, nnVars, frameVars>>

\* the forward pass followed by a backward pass and an optimizer step
EmbedBackbone_trains ==
    /\ pc = "embed_backbone"
    /\ y' = backbone(x)
    /\ trace' = trace \o <<Op("backward"), Op("step")>>
    /\ weights' = step(weights, backward(grads, <<e, b>>))
    /\ grads' = backward(grads, <<e, b>>)
    /\ pc' = "embed_append"
    /\ UNCHANGED <<i, x, fnames, embeddings, filenames, training, grad_enabled>>
    /\ UNCHANGED <<e, b, outcome, loss, avg_loss, avg_output_std, collapse_level,
                   reports, hist>>
    /\ UNCHANGED <<config, plotVars, nnVars, frameVars>>

\* y = model.backbone(x).flatten(start_dim=1)
EmbedBackbone ==
    /\ pc = "embed_backbone"
    /\ y' = backbone(x)
    /\ pc' = "embed_append"
    /\ UNCHANGED <<i, x, fnames, embeddings, filenames, training, grad_enabled>>
    /\ UNCHANGED <<config, trainVars, plotVars, nnVars, frameVars>>

\* embeddings.append(y)
EmbedAppend ==
    /\ pc = "embed_append"
    /\ embeddings' = Append(embeddings, y)
    /\ pc' = "embed_filenames"
    /\ UNCHANGED <<i, x, y, fnames, filenames, training, grad_enabled>>
    /\ UNCHANGED <<config, trainVars, plotVars, nnVars, frameVars>>

\* filenames = filenames + list(fnames)
EmbedFilenames ==
    /\ pc = "embed_filenames"
    /\ filenames' = add_filenames(filenames, fnames)
    /\ pc' = "embed_for"
    /\ UNCHANGED <<i, x, y, fnames, embeddings, training, grad_enabled>>
    /\ UNCHANGED <<config, trainVars, plotVars, nnVars, frameVars>>

\* the loader is exhausted: the loop and the no_grad block end
EmbedExit ==
    /\ pc = "embed_for"
    /\ ~HasTestBatch(i + 2)
    /\ grad_enabled' = TRUE
    /\ pc' = "concat"
    /\ UNCHANGED <<training, embedVars>>
    /\ UNCHANGED <<config, trainVars, plotVars, nnVars, frameVars>>

\* embeddings = torch.cat(embeddings, dim=0); embeddings = embeddings.cpu().numpy()
Concat ==
    /\ pc = "concat"
    /\ embeddings' = cat(embeddings)
    /\ pc' = "embedded"
    /\ UNCHANGED <<i, x, y, fnames, filenames, training, grad_enabled>>
    /\ UNCHANGED <<config, trainVars, plotVars, nnVars, frameVars>>

-----------------------------------------------------------------------------
(* Rescaling cell and get_scatter_plot_with_thumbnails *)

\* numpy's nan, the value of 0. / 0.
NaN == [n |-> 0, d |-> 0]

IsNaN(u) == u.d = 0

\* numpy arithmetic on values that may be nan
NSub(u, v) == IF IsNaN(u) \/ IsNaN(v) THEN NaN ELSE RSub(u, v)
NAdd(u, v) == IF IsNaN(u) \/ IsNaN(v) THEN NaN ELSE RAdd(u, v)
NMul(u, v) == IF IsNaN(u) \/ IsNaN(v) THEN NaN ELSE RMul(u, v)
\* u < v: False when either is nan
NLess(u, v) == ~IsNaN(u) /\ ~IsNaN(v) /\ RLess(u, v)
\* u >= v: False when either is nan
NGeq(u, v) == ~IsNaN(u) /\ ~IsNaN(v) /\ RLeq(v, u)

\* u / v for integers u, v; (x - m) / (M - m) has u = 0 whenever v = 0
Divide(u, v) == IF v = 0 THEN NaN ELSE Rat(u, v)

\* np.max(embeddings_2d, axis=0)[a], np.min(embeddings_2d, axis=0)[a]
AxisMax(pts, a) == CHOOSE v \in {pts[k][a] : k \in 1..Len(pts)} :
                       \A k \in 1..Len(pts) : pts[k][a] <= v
AxisMin(pts, a) == CHOOSE v \in {pts[k][a] : k \in 1..Len(pts)} :
                       \A k \in 1..Len(pts) : pts[k][a] >= v

\* (embeddings_2d - m) / (M - m)
normalize(pts) ==
    [k \in 1..Len(pts) |->
        [a \in 1..2 |->
            Divide(pts[k][a] - AxisMin(pts, a), AxisMax(pts, a) - AxisMin(pts, a))]]

\* np.sum((p - q) ** 2)
SqDist(p, q) ==
    NAdd(NMul(NSub(p[1], q[1]), NSub(p[1], q[1])),
         NMul(NSub(p[2], q[2]), NSub(p[2], q[2])))

\* np.min(dist) < 2e-3, with dist the squared distances of p to the shown points:
\* np.min is nan when a distance is nan, and nan < 2e-3 is False
TooClose(p, shown) ==
    /\ \A k \in 1..Len(shown) : ~IsNaN(SqDist(p, shown[k]))
    /\ \E k \in 1..Len(shown) : NLess(SqDist(p, shown[k]), [n |-> 2, d |-> 1000])

\* the orders np.random.shuffle can leave a list of n indices in
Shuffles(n) ==
    { q \in [1..n -> 1..n] : \A k1, k2 \in 1..n : q[k1] = q[k2] => k1 = k2 }

\* what projection.fit_transform can return for the model's datasets
Coords == {0, 1, 30}
Points == Coords \X Coords

\* M = np.max(...); m = np.min(...); embeddings_2d = (embeddings_2d - m) / (M - m)
Rescale ==
    /\ pc = "rescale"
    /\ embeddings_2d' = normalize(raw_2d)
    /\ pc' = "scatter"
    /\ UNCHANGED <<raw_2d, iterator, pos, shown_images, shown_images_idx, thumbnails>>
    /\ UNCHANGED <<config, trainVars, training, grad_enabled, embedVars, nnVars, frameVars>>

\* shown_images_idx = []; shown_images = np.array([[1., 1.]]); np.random.shuffle(iterator)
Shuffle ==
    /\ pc = "scatter"
    /\ shown_images_idx' = <<>>
    /\ shown_images' = << <<One, One>> >>
    /\ iterator' \in Shuffles(Len(embeddings_2d))
    /\ pos' = 0
    /\ pc' = "visit"
    /\ UNCHANGED <<raw_2d, embeddings_2d, thumbnails>>
    /\ UNCHANGED <<config, trainVars, training, grad_enabled, embedVars, nnVars, frameVars>>

\* one iteration of: for i in iterator:
Visit ==
    /\ pc = "visit"
    /\ pos < Len(iterator)
    /\ pos' = pos + 1
    /\ IF TooClose(embeddings_2d[iterator[pos + 1]], shown_images)
       THEN UNCHANGED <<shown_images, shown_images_idx>>
       ELSE /\ shown_images' = Append(shown_images, embeddings_2d[iterator[pos + 1]])
            /\ shown_images_idx' = Append(shown_images_idx, iterator[pos + 1])
    /\ UNCHANGED <<pc, raw_2d, embeddings_2d, iterator, thumbnails>>
    /\ UNCHANGED <<config, trainVars, training, grad_enabled, embedVars, nnVars, frameVars>>

\* for idx in shown_images_idx: ... ax.add_artist(img_box)
PlotOverlays ==
    /\ pc = "visit"
    /\ pos = Len(iterator)
    /\ thumbnails' = [k \in 1..Len(shown_images_idx) |->
                         [path |-> Fname(shown_images_idx[k]),
                          xy |-> embeddings_2d[shown_images_idx[k]]]]
    /\ pc' = "plotted"
    /\ UNCHANGED <<raw_2d, embeddings_2d, iterator, pos, shown_images, shown_images_idx>>
    /\ UNCHANGED <<config, trainVars, training, grad_enabled, embedVars, nnVars, frameVars>>

-----------------------------------------------------------------------------
(* Nearest-neighbour cell *)

\* np.power(embeddings[k] - embeddings[example], 2).sum(-1)
distance(embs, k, example) ==
    (embs[k][1] - embs[example][1]) * (embs[k][1] - embs[example][1])
    + (embs[k][2] - embs[example][2]) * (embs[k][2] - embs[example][2])

RECURSIVE Sorted(_, _, _)
\* the orders np.argsort can give the indices in `left`: non-decreasing
\* distance, equal distances in any order (the default sort is not stable)
Sorted(embs, example, left) ==
    IF left = {} THEN { <<>> }
    ELSE UNION { { <<k>> \o rest : rest \in Sorted(embs, example, left \ {k}) } :
                 k \in { k1 \in left : \A k2 \in left :
                            distance(embs, k1, example) <= distance(embs, k2, example) } }

\* s[:n]
Prefix(s, n) == SubSeq(s, 1, Min(n, Len(s)))

\* Python's s[start:stop] on a sequence of length len, as the 0-based range
\* first..last (empty when first > last)
SliceFirst(start, len) == IF start < 0 THEN (IF len + start < 0 THEN 0 ELSE len + start)
                          ELSE Min(start, len)
SliceLast(stop, len) == (IF stop < 0 THEN (IF len + stop < 0 THEN 0 ELSE len + stop)
                         ELSE Min(stop, len)) - 1

\* np.zeros((h, wd, 3)).astype(np.uint8): a pixel stands for its three channels
zeros(h, wd) == [r \in 1..h |-> [c \in 1..wd |-> 0]]

Height(a) == Len(a)
Width(a) == IF Len(a) = 0 THEN 0 ELSE Len(a[1])

\* the 0-based rows (axis = 1) or columns (axis = 2) that a[wf:-wf] selects
SliceRange(a, wf, axis) ==
    LET len == IF axis = 1 THEN Height(a) ELSE Width(a)
    IN  SliceFirst(wf, len)..SliceLast(-wf, len)

\* numpy's rule for a[...] = image: each axis of the image has the length of
\* the selected block or length 1; anything else raises ValueError
broadcasts(framed, wf, image) ==
    /\ Height(image) \in {Cardinality(SliceRange(framed, wf, 1)), 1}
    /\ Width(image) \in {Cardinality(SliceRange(framed, wf, 2)), 1}

\* framed_img[w:-w, w:-w] = img: the selected block gets the image, an axis
\* of length 1 being repeated
assign_slice(framed, wf, image) ==
    LET rs == SliceRange(framed, wf, 1)
        cs == SliceRange(framed, wf, 2)
    IN  [r \in 1..Height(framed) |-> [c \in 1..Width(framed) |->
            IF r - 1 \in rs /\ c - 1 \in cs
            THEN image[IF Height(image) = 1 THEN 1 ELSE r - wf]
                      [IF Width(image) = 1 THEN 1 ELSE c - wf]
            ELSE framed[r][c]]]

\* example_idx = filenames.index(example_image); distances; np.argsort(distances)[:n_subplots]
Neighbors ==
    /\ pc = "neighbors"
    /\ nearest_neighbors' \in
           { Prefix(s, n_subplots) :
               s \in Sorted(nn_embeddings, example_idx, 1..Len(nn_embeddings)) }
    /\ subplots' = <<>>
    /\ pc' = "show"
    /\ UNCHANGED <<nn_embeddings, example_idx>>
    /\ UNCHANGED <<config, trainVars, training, grad_enabled, embedVars, plotVars, frameVars>>

\* one iteration of: for plot_offset, plot_idx in enumerate(nearest_neighbors):
ShowNeighbor ==
    /\ pc = "show"
    /\ Len(subplots) < Len(nearest_neighbors)
    /\ subplots' = Append(subplots,
           [fname |-> Fname(nearest_neighbors[Len(subplots) + 1]),
            title |-> IF Len(subplots) = 0 THEN "Example Image" ELSE "",
            framed |-> Len(subplots) = 0])
    /\ UNCHANGED <<pc, nn_embeddings, example_idx, nearest_neighbors>>
    /\ UNCHANGED <<config, trainVars, training, grad_enabled, embedVars, plotVars, frameVars>>

\* the loop over nearest_neighbors ends
ShowDone ==
    /\ pc = "show"
    /\ Len(subplots) = Len(nearest_neighbors)
    /\ pc' = "shown"
    /\ UNCHANGED nnVars
    /\ UNCHANGED <<config, trainVars, training, grad_enabled, embedVars, plotVars, frameVars>>

\* img = get_image_as_np_array(filename); ny, nx, _ = img.shape;
\* framed_img = np.zeros((w + ny + w, w + nx + w, 3)).astype(np.uint8)
FrameZeros ==
    /\ pc = "frame"
    /\ framed_img' = zeros(w + Height(img) + w, w + Width(img) + w)
    /\ pc' = "frame_assign"
    /\ UNCHANGED <<img, w>>
    /\ UNCHANGED <<config, trainVars, training, grad_enabled, embedVars, plotVars, nnVars>>

\* framed_img[w:-w, w:-w] = img; return framed_img
FrameAssign ==
    /\ pc = "frame_assign"
    /\ IF broadcasts(framed_img, w, img)
       THEN /\ framed_img' = assign_slice(framed_img, w, img)
            /\ pc' = "frame_returned"
       ELSE /\ pc' = "frame_raised"       \* ValueError
            /\ UNCHANGED framed_img
    /\ UNCHANGED <<img, w>>
    /\ UNCHANGED <<config, trainVars, training, grad_enabled, embedVars, plotVars, nnVars>>

-----------------------------------------------------------------------------
(* Specifications *)

InitTrainVars ==
    /\ e = -1
    /\ b = 0
    /\ outcome = NoOutcome
    /\ loss = Zero
    /\ grads = <<>>
    /\ weights = <<>>
    /\ avg_loss = Zero
    /\ avg_output_std = Zero
    /\ collapse_level = Real(Zero)
    /\ reports = <<>>
    /\ trace = <<>>
    /\ hist = <<>>
    /\ training = TRUE
    /\ grad_enabled = TRUE

InitEmbedVars ==
    /\ i = -1
    /\ x = <<>>
    /\ y = <<>>
    /\ fnames = <<>>
    /\ embeddings = <<>>
    /\ filenames = <<>>

InitPlotVars ==
    /\ raw_2d = <<>>
    /\ embeddings_2d = <<>>
    /\ iterator = <<>>
    /\ pos = 0
    /\ shown_images = <<>>
    /\ shown_images_idx = <<>>
    /\ thumbnails = <<>>

InitNNVars ==
    /\ nn_embeddings = <<>>
    /\ example_idx = 0
    /\ nearest_neighbors = <<>>
    /\ subplots = <<>>

InitFrameVars ==
    /\ img = <<>>
    /\ w = 0
    /\ framed_img = <<>>

\* The notebook from the training cell on.  torch.std over a batch needs two
\* rows, so the training loop is run with batch_size >= 2.
Init ==
    /\ epochs \in 0..MaxEpochs
    /\ num_images \in 1..MaxImages
    /\ batch_size \in 2..MaxBatchSize
    /\ pc = "for_epoch"
    /\ InitTrainVars /\ InitEmbedVars /\ InitPlotVars /\ InitNNVars /\ InitFrameVars

Next ==
    \/ ForEpoch \/ ForBatch \/ Forward \/ Loss \/ Backward \/ Step \/ ZeroGrad
    \/ Stats \/ Report
    \/ EmbedInit \/ EmbedFor \/ EmbedBackbone \/ EmbedAppend \/ EmbedFilenames
    \/ EmbedExit \/ Concat

Spec == Init /\ [][Next]_vars

FairSpec == Spec /\ WF_vars(Next)

\* The embedding cell alone, for every batch size of dataloader_test (the
\* program with epochs = 0, where the training loop runs no batch).
InitEmbed ==
    /\ epochs = 0
    /\ num_images \in 1..MaxImages
    /\ batch_size \in 1..MaxBatchSize
    /\ pc = "embed"
    /\ InitTrainVars /\ InitEmbedVars /\ InitPlotVars /\ InitNNVars /\ InitFrameVars

NextEmbed ==
    \/ EmbedInit \/ EmbedFor \/ EmbedBackbone \/ EmbedAppend \/ EmbedFilenames
    \/ EmbedExit \/ Concat

SpecEmbed == InitEmbed /\ [][NextEmbed]_vars

FairSpecEmbed == SpecEmbed /\ WF_vars(NextEmbed)

\* The report line alone, on a grid of values the moving average can have at
\* the end of an epoch (0 when no batch has run yet); the batches of the
\* following epoch move the average to another value of the grid.
StdGrid == { Rat(k, StdDen) : k \in 0..MaxStdNum }

InitCollapse ==
    /\ epochs = 2
    /\ num_images = 2
    /\ batch_size = 2
    /\ pc = "report"
    /\ e = 0
    /\ b = 0
    /\ outcome = NoOutcome
    /\ loss = Zero
    /\ grads = <<>>
    /\ weights = <<>>
    /\ avg_loss = Zero
    /\ avg_output_std \in StdGrid
    /\ collapse_level = Real(Zero)
    /\ reports = <<>>
    /\ trace = <<>>
    /\ hist = <<>>
    /\ training = TRUE
    /\ grad_enabled = TRUE
    /\ InitEmbedVars /\ InitPlotVars /\ InitNNVars /\ InitFrameVars

\* an epoch's batches, as far as the report can tell
EpochOfBatches ==
    /\ pc = "for_epoch"
    /\ in_range(e + 1, epochs)
    /\ e' = e + 1
    /\ avg_output_std' \in StdGrid
    /\ pc' = "report"
    /\ UNCHANGED <<b, outcome, loss, grads, weights, avg_loss, collapse_level,
                   reports, trace, hist>>
    /\ UNCHANGED <<config, training, grad_enabled, embedVars, plotVars, nnVars, frameVars>>

NextCollapse == Report \/ EpochOfBatches

SpecCollapse == InitCollapse /\ [][NextCollapse]_vars

\* The rescaling cell and the scatter plot, on the projection of a dataset of
\* 1..MaxPoints images.
InitPlot ==
    /\ epochs = 0
    /\ batch_size = 1
    /\ num_images \in 1..MaxPoints
    /\ pc = "rescale"
    /\ raw_2d \in [1..num_images -> Points]
    /\ embeddings_2d = <<>>
    /\ iterator = <<>>
    /\ pos = 0
    /\ shown_images = <<>>
    /\ shown_images_idx = <<>>
    /\ thumbnails = <<>>
    /\ InitTrainVars /\ InitEmbedVars /\ InitNNVars /\ InitFrameVars

NextPlot == Rescale \/ Shuffle \/ Visit \/ PlotOverlays

SpecPlot == InitPlot /\ [][NextPlot]_vars

\* what the backbone can give for an image of the model's datasets
Features == (0..1) \X (0..1)

\* plot_nearest_neighbors_3x3 on a dataset of 1..MaxNeighbors images with any
\* embeddings, and on one of n_subplots + 1 images whose embeddings are
\* distinct or the same for the first two images
InitNN ==
    /\ epochs = 0
    /\ batch_size = 1
    /\ \/ /\ num_images \in 1..MaxNeighbors
          /\ nn_embeddings \in [1..num_images -> Features]
       \/ /\ num_images = n_subplots + 1
          /\ \E twin \in 1..2 :
                nn_embeddings = [k \in 1..num_images |-> <<IF k = 2 THEN twin ELSE k, 0>>]
    /\ example_idx \in 1..num_images
    /\ pc = "neighbors"
    /\ nearest_neighbors = <<>>
    /\ subplots = <<>>
    /\ InitTrainVars /\ InitEmbedVars /\ InitPlotVars /\ InitFrameVars

NextNN == Neighbors \/ ShowNeighbor \/ ShowDone

SpecNN == InitNN /\ [][NextNN]_vars

Pixels == {0, 255}

\* get_image_as_np_array_with_frame on images of up to MaxSide x MaxSide
\* pixels with a frame of width 0..MaxFrame
InitFrame ==
    /\ epochs = 0
    /\ batch_size = 1
    /\ num_images = 1
    /\ pc = "frame"
    /\ \E ny \in 1..MaxSide, nx \in 1..MaxSide : img \in [1..ny -> [1..nx -> Pixels]]
    /\ w \in 0..MaxFrame
    /\ framed_img = <<>>
    /\ InitTrainVars /\ InitEmbedVars /\ InitPlotVars /\ InitNNVars

NextFrame == FrameZeros \/ FrameAssign

SpecFrame == InitFrame /\ [][NextFrame]_vars

-----------------------------------------------------------------------------
(* Claims *)

\* the embedding rows held so far, as torch.cat would lay them out
Rows == IF pc = "embedded" THEN embeddings ELSE cat(embeddings)

AfterIteration == pc \in {"embed_for", "concat", "embedded"}

\* C1: after every iteration of the embedding loop (whatever the size of the
\* batch), there are as many filenames as embedding rows, and the k-th
\* filename is the filename of the image whose backbone output is the k-th row
\* of the concatenated embeddings.
C1_Aligned ==
    AfterIteration =>
        /\ Len(filenames) = Len(Rows)
        /\ \A k \in 1..Len(filenames) :
              \E m \in 1..num_images :
                  /\ Rows[k] = <<"backbone", Image(m)>>
                  /\ filenames[k] = Fname(m)

\* two iterations done, the second on a partial batch
C1_Witness ==
    /\ pc = "embed_for"
    /\ i = 1
    /\ Len(x) < batch_size
    /\ Len(filenames) = num_images

BatchOps == <<"forward_x0", "forward_x1", "loss", "backward", "step", "zero_grad", "stats">>

BatchTrace == SelectSeq(trace, LAMBDA ev : ev.op # "report")

\* the backward passes and gradient resets, in order
GradTrace == SelectSeq(trace, LAMBDA ev : ev.op \in {"backward", "zero_grad"})

\* the q-th batch of the run (from 0): its epoch and its number in the epoch
BatchNo(q) == <<q \div NumTrainBatches, (q % NumTrainBatches) + 1>>

TrainingOver == pc \notin {"for_epoch", "for_batch", "forward", "loss", "backward",
                           "step", "zero_grad", "stats", "report"}

\* C2: every batch of every epoch goes through forward (both views), loss,
\* backward, optimizer step, gradient reset, in this order; between two
\* backward passes the gradients are reset; every update uses the gradients
\* of exactly the current batch, and there is one update per batch.
C2_TrainingOrder ==
    /\ \A bt \in {BatchTrace} :
          \A k \in 1..Len(bt) :
              /\ bt[k].op = BatchOps[((k - 1) % 7) + 1]
              /\ bt[k].batch = BatchNo((k - 1) \div 7)
    /\ \A gt \in {GradTrace} :
          \A k \in 1..Len(gt) :
              gt[k].op = (IF k % 2 = 1 THEN "backward" ELSE "zero_grad")
    /\ \A k \in 1..Len(weights) : weights[k] = <<BatchNo(k - 1)>>
    /\ Len(weights) = Cardinality({k \in 1..Len(trace) : trace[k].op = "step"})
    /\ TrainingOver =>
          /\ Len(BatchTrace) = 7 * epochs * NumTrainBatches
          /\ Len(weights) = epochs * NumTrainBatches

\* an update in the second epoch, after two updates of the first
C2_Witness ==
    /\ Len(weights) = 3
    /\ e = 1
    /\ pc = "zero_grad"

RECURSIVE WeightedSum(_, _)
\* sum over j = m..k of 0.1 * 0.9^(k - j) * vals[j], with k = Len(vals)
WeightedSum(vals, m) ==
    IF m > Len(vals) THEN Zero
    ELSE RAdd(RMul(Rat(9^(Len(vals) - m), 10^(Len(vals) - m + 1)), vals[m]),
              WeightedSum(vals, m + 1))

Losses == [k \in 1..Len(hist) |-> hist[k].loss]
Stds == [k \in 1..Len(hist) |-> hist[k].std]

\* C3: the logged loss and output standard deviation are 0 before the first
\* batch, and after k batches in total (epoch boundaries do not matter) each
\* is the sum over j = 1..k of 0.1 * 0.9^(k-j) * value_j.
C3_MovingAverage ==
    /\ avg_loss = WeightedSum(Losses, 1)
    /\ avg_output_std = WeightedSum(Stds, 1)
    /\ hist = <<>> => (avg_loss = Zero /\ avg_output_std = Zero)

\* averages over batches of two epochs
C3_Witness ==
    /\ Len(hist) = 4
    /\ e = 1
    /\ avg_output_std # Zero
    /\ hist[1].std # hist[4].std

\* number of trace entries of one epoch: its batches and its report
EpochLen == 7 * NumTrainBatches + 1

C4_Reports ==
    /\ Len(reports) <= epochs
    /\ \A k \in 1..Len(reports) : reports[k].e = k - 1
    /\ \A k \in 1..Len(trace) :
          /\ trace[k].batch[1] = (k - 1) \div EpochLen
          /\ (trace[k].op = "report") = (k % EpochLen = 0)
    /\ Len(reports) = Cardinality({k \in 1..Len(trace) : trace[k].op = "report"})
    /\ TrainingOver => Len(reports) = epochs

\* C4: each epoch gets exactly one report, after all its batches and before
\* any batch of the next epoch; the reports are numbered 0..epochs-1 in
\* increasing order, and the training loop terminates with epochs reports.
C4_ReportPerEpoch ==
    /\ []C4_Reports
    /\ <>(TrainingOver /\ Len(reports) = epochs)

\* the second report, after the batches of two epochs
C4_Witness ==
    /\ Len(reports) = 2
    /\ Len(hist) = 4
    /\ TrainingOver

\* C5: the reported collapse level is in [0, 1]; it is the larger of 0 and
\* 1 - sqrt(out_dim) * avg_output_std; it is 0 exactly when avg_output_std >=
\* 1 / sqrt(out_dim), and 1 exactly when avg_output_std is 0; of two reports,
\* the one with the larger avg_output_std has no larger collapse level.
C5_CollapseLevel ==
    /\ \A k \in 1..Len(reports) :
          LET s == reports[k].avg_output_std
              c == reports[k].collapse_level
              raw == SSub(Real(One), SScale(sqrt_out_dim, s))
          IN  /\ SLeq(Real(Zero), c) /\ SLeq(c, Real(One))
              /\ SLeq(raw, c)
              /\ c = Real(Zero) \/ c = raw
              /\ (c = Real(Zero)) = (out_dim * s.n * s.n >= s.d * s.d)
              /\ (c = Real(One)) = (s = Zero)
    /\ \A k1, k2 \in 1..Len(reports) :
          RLeq(reports[k1].avg_output_std, reports[k2].avg_output_std)
              => SLeq(reports[k2].collapse_level, reports[k1].collapse_level)
    /\ pc = "for_epoch" => collapse_level = reports[Len(reports)].collapse_level

\* a report with the level clamped to 0 after a report of a level strictly
\* between 0 and 1
C5_Witness ==
    /\ Len(reports) = 2
    /\ reports[2].collapse_level = Real(Zero)
    /\ reports[1].collapse_level # Real(Zero)
    /\ reports[1].collapse_level # Real(One)

CeilDiv(n, d) == (n + d - 1) \div d

C10_Final ==
    /\ i + 1 <= CeilDiv(num_images, batch_size)
    /\ pc \in {"concat", "embedded"} =>
          /\ i + 1 = CeilDiv(num_images, batch_size)
          /\ filenames = [k \in 1..num_images |-> Fname(k)]
          /\ Rows = [k \in 1..num_images |-> <<"backbone", Image(k)>>]

\* C10: the embedding loop runs ceil(N / B) iterations and terminates; it
\* ends with N embedding rows and N filenames, those of the dataset's images
\* in dataset order, each once, also when B does not divide N.
C10_EmbedsAll ==
    /\ []C10_Final
    /\ <>(pc = "embedded")

\* finished, with a last partial batch after a full one
C10_Witness ==
    /\ pc = "embedded"
    /\ num_images > batch_size
    /\ num_images % batch_size # 0
    /\ Len(embeddings) = num_images

Rescaled == pc \in {"scatter", "visit", "plotted"}

InUnit(v) == NGeq(v, Zero) /\ NGeq(One, v)

\* C6 (as claimed): after the rescaling, every point has both coordinates in
\* [0, 1], and on each axis the smallest coordinate is 0 and the largest is 1.
C6_UnitSquare ==
    Rescaled =>
        /\ \A k \in 1..Len(embeddings_2d) : \A a \in 1..2 : InUnit(embeddings_2d[k][a])
        /\ \A a \in 1..2 :
              /\ \E k \in 1..Len(embeddings_2d) : embeddings_2d[k][a] = Zero
              /\ \E k \in 1..Len(embeddings_2d) : embeddings_2d[k][a] = One

Threshold == [n |-> 2, d |-> 1000]      \* 2e-3

Visited == {iterator[k] : k \in 1..pos}

\* position of image m in the visiting order
PosOf(m) == CHOOSE k \in 1..Len(iterator) : iterator[k] = m

IsShown(m) == \E k \in 1..Len(shown_images_idx) : shown_images_idx[k] = m

\* C9 (as claimed): for every visiting order, two shown images are at squared
\* distance >= 2e-3, every shown image is at squared distance >= 2e-3 from
\* (1, 1), and every visited image that is not shown is at squared distance
\* < 2e-3 from (1, 1) or from an image shown before it was visited.
C9_FarApart ==
    pc \in {"visit", "plotted"} =>
        /\ \A m1, m2 \in Visited :
              (m1 # m2 /\ IsShown(m1) /\ IsShown(m2))
                  => NGeq(SqDist(embeddings_2d[m1], embeddings_2d[m2]), Threshold)
        /\ \A m \in Visited :
              IsShown(m) => NGeq(SqDist(embeddings_2d[m], <<One, One>>), Threshold)
        /\ \A m \in Visited :
              ~IsShown(m) =>
                  \/ NLess(SqDist(embeddings_2d[m], <<One, One>>), Threshold)
                  \/ \E m2 \in Visited :
                        /\ IsShown(m2)
                        /\ PosOf(m2) < PosOf(m)
                        /\ NLess(SqDist(embeddings_2d[m], embeddings_2d[m2]), Threshold)

Drawn == {nearest_neighbors[k] : k \in 1..Len(nearest_neighbors)}

DistTo(k) == distance(nn_embeddings, k, example_idx)

\* C7 (as claimed): the first subplot, titled "Example Image" and framed, is
\* the example image; the other subplots (eight of them when the dataset has
\* that many other images) show distinct other images in order of
\* non-decreasing squared distance to the example, and no image that is not
\* drawn is strictly closer than a drawn one.
C7_ExampleAndEightNeighbors ==
    pc = "shown" =>
        /\ Len(nn_embeddings) >= n_subplots => Len(subplots) = n_subplots
        /\ subplots[1] = [fname |-> Fname(example_idx), title |-> "Example Image",
                          framed |-> TRUE]
        /\ \A k \in 2..Len(subplots) :
              /\ subplots[k].fname = Fname(nearest_neighbors[k])
              /\ nearest_neighbors[k] # example_idx
              /\ ~subplots[k].framed
        /\ \A k1, k2 \in 1..Len(nearest_neighbors) :
              k1 < k2 => /\ nearest_neighbors[k1] # nearest_neighbors[k2]
                         /\ DistTo(nearest_neighbors[k1]) <= DistTo(nearest_neighbors[k2])
        /\ \A m \in (1..Len(nn_embeddings)) \ Drawn :
              \A k \in Drawn : DistTo(m) >= DistTo(k)

\* C8 (as claimed): for every image of shape (ny, nx, 3) and every w >= 0 the
\* function returns an array of shape (ny + 2w, nx + 2w, 3) whose pixel
\* (w + r, w + c) is the pixel (r, c) of the image, every other pixel being 0.
C8_BlackFrame ==
    pc \in {"frame_returned", "frame_raised"} =>
        /\ pc = "frame_returned"
        /\ Height(framed_img) = Height(img) + 2 * w
        /\ Width(framed_img) = Width(img) + 2 * w
        /\ \A r \in 1..Height(framed_img) : \A c \in 1..Width(framed_img) :
              framed_img[r][c] =
                  IF r - w \in 1..Height(img) /\ c - w \in 1..Width(img)
                  THEN img[r - w][c - w] ELSE 0

\* the with torch.no_grad() block: the embedding loop
EmbeddingPass == pc \in {"embed_for", "embed_backbone", "embed_append", "embed_filenames"}

\* the embedding cell, from its first statement to the concatenation
EmbeddingCell == EmbeddingPass \/ pc \in {"embed", "concat"}

C11_AfterTraining ==
    /\ EmbeddingCell =>
          /\ TrainingOver
          /\ Len(reports) = epochs
          /\ Len(hist) = epochs * NumTrainBatches
          /\ Len(weights) = epochs * NumTrainBatches
    /\ EmbeddingPass => ~grad_enabled /\ ~training

C11_Frame ==
    EmbeddingCell =>
        /\ trace' = trace
        /\ weights' = weights
        /\ grads' = grads
        /\ avg_loss' = avg_loss
        /\ avg_output_std' = avg_output_std

\* C11: the embedding pass starts only after the last training epoch has
\* finished (all reports printed, all batches trained) and runs in eval mode
\* with gradients disabled; no step of the embedding cell runs a backward
\* pass or an optimizer update (the trace of training operations does not
\* grow) or changes the parameters, the gradients held by the optimizer or
\* the moving averages.
C11_EmbeddingLeavesModel == []C11_AfterTraining /\ [][C11_Frame]_vars

C11_Witness ==
    /\ pc = "embed_filenames"
    /\ i = 1
    /\ ~grad_enabled
    /\ epochs = 2
    /\ Len(weights) = 2
    /\ avg_loss # Zero

====
